---- MODULE Spec2Model ----
(***************************************************************************)
(* DailyDCAStrategy.generate_signals (the lot-book state machine),         *)
(* BaseStrategy.apply_strategy / calculate_positions and the Backtester    *)
(* engine (run, get_trade_log, calculate_metrics,                          *)
(* compare_with_buy_and_hold).                                             *)
(*                                                                         *)
(* Prices are integers; every float comparison of the source is modelled   *)
(* by the equivalent exact comparison of integers (cross-multiplied), and  *)
(* every float column of the backtest by an exact fraction.                *)
(***************************************************************************)
EXTENDS Integers, Sequences, FiniteSets, TLC

VARIABLES
    cfg,            \* the DailyDCAStrategy instance's constructor fields
    pc,             \* "idle" | "loop" (inside generate_signals) | "done"
    data,           \* the frame handed to Backtester.run: [columns, Close]
    position_size,  \* the position_size argument of Backtester.run
    idx,            \* number of bars the for-loop has processed
    buy_positions,  \* the lot book: sequence of [price, qty]
    rows,           \* the strategy's output columns, one record per processed bar
    results,        \* Backtester.results: None or the sequence of backtest rows
    last,           \* the last public call and how it ended
    signals,        \* BaseStrategy.signals: None or the frame generate_signals returned
    positions,      \* BaseStrategy.positions: None or that frame with its Position column
    metrics,        \* the dict calculate_metrics returned, when it was the last call
                    \* and did not raise; None otherwise
    quantities,     \* the direct calls of _calculate_quantity made so far, each
                    \* with its argument and the value it returned
    _config,        \* Config._config: the loaded config.yaml
    lookup,         \* the last call of Config.get_daily_dca_config: its preset,
                    \* what it returned and whether it warned; None before it
    use_db,         \* DataFetcher.use_db
    db,             \* DataFetcher.db: the database, None without one
    data_cache,     \* DataFetcher.data_cache
    fetched,        \* the direct call of fetch_data: its arguments, the day of
                    \* now and how it ended; None before it
    multiple,       \* the frame of fetch_multiple: its arguments, the loop's
                    \* position, data_dict and the attempts made; None before it
    dbcall,         \* the last direct call of MarketDataDB.save_data or
                    \* delete_data: its arguments and the database it found;
                    \* None before it
    second          \* a second, independent Backtester with its own strategy:
                    \* the record of its fields; None when there is none

\* the engine and the strategy it runs
engine ==
    <<cfg, pc, data, position_size, idx, buy_positions, rows, results, last,
      signals, positions, metrics>>

\* the DataFetcher
fetcher == <<use_db, db, data_cache, fetched, multiple>>

\* what lies outside the engine and the run of its strategy
outside == <<quantities, _config, lookup, fetcher, dbcall, second>>

vars ==
    <<cfg, pc, data, position_size, idx, buy_positions, rows, results, last,
      signals, positions, metrics, outside>>

----------------------------------------------------------------------------
(* Bounds of the model *)

MaxLen == 3
MaxPositionsBound == 2
MaxDrop == 26
MaxDay == 3
MaxSymbols == 3

(* Program constants *)

Commission == 1      \* commission = 0.001, in units of 1/RateScale
Slippage == 1        \* slippage = 0.001, in units of 1/RateScale
RateScale == 1000
InitialCapital == 10000  \* initial_capital = 10000.0
DepthThreshold == 5  \* depth_threshold = 5.0
MaxQuantityMultiplier == 5  \* max_quantity_multiplier = 5
FreshDays == 2              \* days_diff <= 2

\* the missing value shift(1) leaves in the first row of Prev_Close
NaN == 0 - 1

\* Backtester.results before any completed run (a completed run stores at
\* least one row, validate_data rejects the empty frame)
None == <<>>

NoFrame == [columns |-> {}, Close |-> <<>>]

RequiredColumns == {"Open", "High", "Low", "Close", "Volume"}

Prices == {45, 50, 51, 60}

Series == UNION {[1..n -> Prices] : n \in 1..MaxLen}

PositionSizes == {1, 2}

(* The frames Backtester.run is called with: well-formed ones, empty ones,
   and ones that lack a required column. *)
Frames ==
    {[columns |-> RequiredColumns, Close |-> s] : s \in Series \cup {<<>>}}
    \cup {[columns |-> RequiredColumns \ {col}, Close |-> <<p>>] :
              col \in RequiredColumns, p \in Prices}

Configs ==
    [max_positions : 1..MaxPositionsBound,
     profit_target_percent : {3},
     first_day_buy : BOOLEAN,
     lookback_days : {1, 3},   \* 1: the rolling high is the bar's own Close
     pullback_percent : {3},
     position_scaling : BOOLEAN,
     base_quantity : {2},
     depth_threshold : {DepthThreshold},
     max_quantity_multiplier : {MaxQuantityMultiplier}]

----------------------------------------------------------------------------
(* Integer helpers *)

Abs(x) == IF x < 0 THEN -x ELSE x

Min(a, b) == IF a <= b THEN a ELSE b

Max(a, b) == IF a >= b THEN a ELSE b

\* Python's int(n / d): truncation toward zero of the quotient
Trunc(n, d) ==
    LET q == Abs(n) \div Abs(d)
    IN  IF (n < 0) = (d < 0) THEN q ELSE -q

RECURSIVE SumCost(_)
SumCost(book) ==
    IF book = <<>> THEN 0
    ELSE Head(book).price * Head(book).qty + SumCost(Tail(book))

RECURSIVE SumQty(_)
SumQty(book) ==
    IF book = <<>> THEN 0 ELSE Head(book).qty + SumQty(Tail(book))

RECURSIVE MaxOver(_, _, _)
MaxOver(closes, lo, hi) ==
    IF lo = hi THEN closes[hi]
    ELSE Max(closes[lo], MaxOver(closes, lo + 1, hi))

----------------------------------------------------------------------------
(* DailyDCAStrategy *)

\* df['Close'].shift(1)
Prev_Close(closes, t) == IF t = 1 THEN NaN ELSE closes[t - 1]

\* rolling(window=lookback_days, min_periods=1): pandas raises ValueError when
\* min_periods is greater than the window
RollingRaises(c) == c.lookback_days < 1

\* df['Close'].rolling(window=lookback_days, min_periods=1).max()
Recent_High(c, closes, t) == MaxOver(closes, Max(1, t - c.lookback_days + 1), t)

DailyDropOrEqual(current_close, prev_close) == current_close <= prev_close

\* current_close < prev_close
DailyDrop(current_close, prev_close) == current_close < prev_close

\* recent_high > 0 and (recent_high - close) / recent_high * 100 >= pullback_percent
PullbackHit(c, recent_high, current_close) ==
    /\ recent_high > 0
    /\ (recent_high - current_close) * 100 >= c.pullback_percent * recent_high

buy_reasonFirstWins(daily_drop, pullback) ==
    IF daily_drop THEN "Daily_Drop" ELSE "Pullback"

\* buy_reason once should_buy holds: the pullback check assigns it last
buy_reason(daily_drop, pullback) ==
    IF pullback THEN "Pullback" ELSE "Daily_Drop"

BelowCapOffByOne(c, book) == Len(book) <= c.max_positions

\* len(buy_positions) < self.max_positions
BelowCap(c, book) == Len(book) < c.max_positions

ProfitHitAnyGain(c, lot, current_close) == current_close > lot.price

\* (current_close - buy_price) / buy_price * 100 >= profit_target_percent
ProfitHit(c, lot, current_close) ==
    (current_close - lot.price) * 100 >= c.profit_target_percent * lot.price

ElifAsIf(bought) == TRUE

\* the sell branch is the elif of the buy branch: it is evaluated only on a
\* bar whose buy branch was not taken
Elif(bought) == ~bought

\* current_close > prev_close and len(buy_positions) > 0
SellBranch(book, current_close, prev_close) ==
    current_close > prev_close /\ Len(book) > 0

\* The division avg_price = total_cost / total_quantity and the one by
\* avg_price: drop_from_avg as the fraction n/d (d = 0: the float is infinite).
DropFromAvg(book, current_close) ==
    IF Len(book) > 0
    THEN LET total_cost == SumCost(book)
             total_quantity == SumQty(book)
         IN  IF total_quantity > 0
             THEN [n |-> (total_cost - current_close * total_quantity) * 100,
                   d |-> total_cost]
             ELSE [n |-> 0, d |-> 1]
    ELSE [n |-> 0, d |-> 1]

MultiplierUncapped(c, drop) == 1 + Trunc(drop.n, drop.d * c.depth_threshold)

\* multiplier = min(1 + int(drop_from_avg / depth_threshold), max_quantity_multiplier)
Multiplier(c, drop) ==
    Min(1 + Trunc(drop.n, drop.d * c.depth_threshold), c.max_quantity_multiplier)

\* _calculate_quantity; int() of an infinite float raises OverflowError
QuantityRaises(c, drop) == c.position_scaling /\ drop.d = 0

_calculate_quantity(c, drop) ==
    IF ~c.position_scaling THEN c.base_quantity
    ELSE c.base_quantity * Multiplier(c, drop)

Lot(price, qty) == [price |-> price, qty |-> qty]

RowCountedBeforeSale(signal, cond, buyq, sells, book) ==
    [Signal |-> signal, Buy_Condition |-> cond, Buy_Quantity |-> buyq,
     Sell_Count |-> sells, Position_Count |-> Len(book) + sells,
     Total_Quantity |-> SumQty(book)]

Row(signal, cond, buyq, sells, book) ==
    [Signal |-> signal, Buy_Condition |-> cond, Buy_Quantity |-> buyq,
     Sell_Count |-> sells, Position_Count |-> Len(book),
     Total_Quantity |-> SumQty(book)]

RemainingAllOrNothing(c, book, current_close) ==
    IF \E i \in 1..Len(book) : ProfitHit(c, book[i], current_close)
    THEN <<>> ELSE book

RemainingRepriced(c, book, current_close) ==
    LET kept == SelectSeq(book, LAMBDA lot : ~ProfitHit(c, lot, current_close))
    IN  [k \in 1..Len(kept) |-> [kept[k] EXCEPT !.price = current_close]]

\* the per-lot profit check of the sell branch
Remaining(c, book, current_close) ==
    SelectSeq(book, LAMBDA lot : ~ProfitHit(c, lot, current_close))

\* One iteration of the for-loop over df.index: the new lot book and the
\* row written for bar t, or raises.
BarStep(c, closes, t, book) ==
    LET current_close == closes[t]
        prev_close == Prev_Close(closes, t)
        recent_high == Recent_High(c, closes, t)
    IN  IF prev_close = NaN
        THEN IF c.first_day_buy
             THEN LET nb == Append(book, Lot(current_close, c.base_quantity))
                  IN  [raises |-> FALSE, book |-> nb,
                       row |-> Row(1, "First_Day", c.base_quantity, 0, nb)]
             ELSE [raises |-> FALSE, book |-> book, row |-> Row(0, "", 0, 0, book)]
        ELSE LET pullback == PullbackHit(c, recent_high, current_close)
                 daily_drop == DailyDrop(current_close, prev_close)
                 should_buy == daily_drop \/ pullback
                 bought == should_buy /\ BelowCap(c, book)
                 drop == DropFromAvg(book, current_close)
             IN  IF bought /\ QuantityRaises(c, drop)
                 THEN [raises |-> TRUE, book |-> book, row |-> Row(0, "", 0, 0, book)]
                 ELSE LET quantity == IF bought THEN _calculate_quantity(c, drop) ELSE 0
                          reason == IF bought THEN buy_reason(daily_drop, pullback) ELSE ""
                          nb == IF bought THEN Append(book, Lot(current_close, quantity))
                                ELSE book
                          remaining == Remaining(c, nb, current_close)
                          sell_count == Len(nb) - Len(remaining)
                      IN  IF /\ Elif(bought)
                             /\ SellBranch(nb, current_close, prev_close)
                             /\ sell_count > 0
                          THEN [raises |-> FALSE, book |-> remaining,
                                row |-> Row(-1, reason, quantity, sell_count, remaining)]
                          ELSE [raises |-> FALSE, book |-> nb,
                                row |-> Row(IF bought THEN 1 ELSE 0, reason,
                                            quantity, 0, nb)]

\* generate_signals as a function of the whole series: the loop run over
\* bars t..len(df) from the lot book and the rows of the bars before t
RECURSIVE LoopFrom(_, _, _, _, _)
LoopFrom(c, closes, t, book, out) ==
    IF t > Len(closes) THEN [raises |-> FALSE, rows |-> out]
    ELSE LET step == BarStep(c, closes, t, book)
         IN  IF step.raises THEN [raises |-> TRUE, rows |-> out]
             ELSE LoopFrom(c, closes, t + 1, step.book, Append(out, step.row))

generate_signals(c, closes) == LoopFrom(c, closes, 1, <<>>, <<>>)

----------------------------------------------------------------------------
(* Exact fractions for the float columns of the backtest; nan marks NaN *)

RECURSIVE GCD(_, _)
GCD(a, b) == IF b = 0 THEN a ELSE GCD(b, a % b)

FNaN == [nan |-> TRUE, n |-> 0, d |-> 1]

\* n/d with d > 0, in lowest terms
Frac(n, d) ==
    LET g == GCD(Abs(n), d)
    IN  [nan |-> FALSE, n |-> n \div g, d |-> d \div g]

FInt(i) == Frac(i, 1)

FAdd(x, y) ==
    IF x.nan \/ y.nan THEN FNaN ELSE Frac(x.n * y.d + y.n * x.d, x.d * y.d)

FSub(x, y) ==
    IF x.nan \/ y.nan THEN FNaN ELSE Frac(x.n * y.d - y.n * x.d, x.d * y.d)

FMul(x, y) ==
    IF x.nan \/ y.nan THEN FNaN ELSE Frac(x.n * y.n, x.d * y.d)

FAbs(x) == IF x.nan THEN FNaN ELSE Frac(Abs(x.n), x.d)

----------------------------------------------------------------------------
(* Exact rationals of any size, for the columns whose values are running
   products (Cumulative_Returns and what is derived from it): the numerator
   and the denominator are natural numbers written as sequences of digits in
   base BigBase, least significant digit first, without leading zeros (zero
   is the empty sequence). neg is the sign, nan marks NaN, and a non-NaN
   value with denominator zero is the infinity a float division by zero
   gives. *)

BigBase == 32768

RECURSIVE BigNat(_)
BigNat(i) == IF i = 0 THEN <<>> ELSE <<i % BigBase>> \o BigNat(i \div BigBase)

Digit(a, i) == IF i <= Len(a) THEN a[i] ELSE 0

RECURSIVE BigTrim(_)
BigTrim(a) ==
    IF a = <<>> \/ a[Len(a)] # 0 THEN a ELSE BigTrim(SubSeq(a, 1, Len(a) - 1))

RECURSIVE BigAddFrom(_, _, _, _)
BigAddFrom(a, b, i, carry) ==
    IF i > Max(Len(a), Len(b))
    THEN IF carry = 0 THEN <<>> ELSE <<carry>>
    ELSE LET sum == Digit(a, i) + Digit(b, i) + carry
         IN  <<sum % BigBase>> \o BigAddFrom(a, b, i + 1, sum \div BigBase)

BigAdd(a, b) == BigAddFrom(a, b, 1, 0)

\* a - b for a >= b
RECURSIVE BigSubFrom(_, _, _, _)
BigSubFrom(a, b, i, borrow) ==
    IF i > Len(a) THEN <<>>
    ELSE LET diff == Digit(a, i) - Digit(b, i) - borrow
         IN  IF diff < 0
             THEN <<diff + BigBase>> \o BigSubFrom(a, b, i + 1, 1)
             ELSE <<diff>> \o BigSubFrom(a, b, i + 1, 0)

BigSub(a, b) == BigTrim(BigSubFrom(a, b, 1, 0))

\* -1, 0, 1 as a < b, a = b, a > b; the digits are compared from position i down
RECURSIVE BigCmpFrom(_, _, _)
BigCmpFrom(a, b, i) ==
    IF i = 0 THEN 0
    ELSE IF a[i] < b[i] THEN 0 - 1
    ELSE IF a[i] > b[i] THEN 1
    ELSE BigCmpFrom(a, b, i - 1)

BigCmp(a, b) ==
    IF Len(a) < Len(b) THEN 0 - 1
    ELSE IF Len(a) > Len(b) THEN 1
    ELSE BigCmpFrom(a, b, Len(a))

\* a times the single digit k
RECURSIVE BigMulDigitFrom(_, _, _, _)
BigMulDigitFrom(a, k, i, carry) ==
    IF i > Len(a)
    THEN IF carry = 0 THEN <<>> ELSE <<carry>>
    ELSE LET prod == a[i] * k + carry
         IN  <<prod % BigBase>> \o BigMulDigitFrom(a, k, i + 1, prod \div BigBase)

\* a times the digits j.. of b
RECURSIVE BigMulFrom(_, _, _)
BigMulFrom(a, b, j) ==
    IF j > Len(b) THEN <<>>
    ELSE BigAdd(BigMulDigitFrom(a, b[j], 1, 0),
                LET rest == BigMulFrom(a, b, j + 1)
                IN  IF rest = <<>> THEN <<>> ELSE <<0>> \o rest)

BigMul(a, b) ==
    IF a = <<>> \/ b = <<>> THEN <<>>
    ELSE IF a = <<1>> THEN b
    ELSE IF b = <<1>> THEN a
    ELSE BigTrim(BigMulFrom(a, b, 1))

QNaN == [nan |-> TRUE, neg |-> FALSE, n |-> <<>>, d |-> BigNat(1)]

\* the value of sign neg, numerator n and denominator d; 0/0 is NaN and
\* zero is written 0/1
Q(neg, n, d) ==
    IF n = <<>>
    THEN IF d = <<>> THEN QNaN
         ELSE [nan |-> FALSE, neg |-> FALSE, n |-> <<>>, d |-> BigNat(1)]
    ELSE [nan |-> FALSE, neg |-> neg, n |-> n, d |-> d]

QFrac(x) == IF x.nan THEN QNaN ELSE Q(x.n < 0, BigNat(Abs(x.n)), BigNat(x.d))

QInt(i) == Q(i < 0, BigNat(Abs(i)), BigNat(1))

QNeg(x) == IF x.nan THEN QNaN ELSE Q(~x.neg, x.n, x.d)

QAbs(x) == IF x.nan THEN QNaN ELSE Q(FALSE, x.n, x.d)

QMul(x, y) ==
    IF x.nan \/ y.nan THEN QNaN
    ELSE Q(x.neg # y.neg, BigMul(x.n, y.n), BigMul(x.d, y.d))

\* x + y of finite values
QAdd(x, y) ==
    IF x.nan \/ y.nan THEN QNaN
    ELSE LET same == x.d = y.d
             a == IF same THEN x.n ELSE BigMul(x.n, y.d)
             b == IF same THEN y.n ELSE BigMul(y.n, x.d)
             d == IF same THEN x.d ELSE BigMul(x.d, y.d)
         IN  IF x.neg = y.neg THEN Q(x.neg, BigAdd(a, b), d)
             ELSE IF BigCmp(a, b) >= 0 THEN Q(x.neg, BigSub(a, b), d)
             ELSE Q(y.neg, BigSub(b, a), d)

QSub(x, y) == QAdd(x, QNeg(y))

\* x / y as float division does it: 0/0 is NaN, anything else over 0 is
\* an infinity
QDiv(x, y) ==
    IF x.nan \/ y.nan THEN QNaN
    ELSE Q(x.neg # y.neg, BigMul(x.n, y.d), BigMul(x.d, y.n))

\* -1, 0, 1 as x < y, x = y, x > y, for values that are not NaN
QCmp(x, y) ==
    LET same == x.d = y.d
        a == IF same THEN x.n ELSE BigMul(x.n, y.d)
        b == IF same THEN y.n ELSE BigMul(y.n, x.d)
    IN  IF x.neg /\ ~y.neg THEN 0 - 1
        ELSE IF ~x.neg /\ y.neg THEN 1
        ELSE IF x.neg THEN BigCmp(b, a)
        ELSE BigCmp(a, b)

\* the float comparisons: each is False when an operand is NaN, != is True
QLt(x, y) == ~x.nan /\ ~y.nan /\ QCmp(x, y) < 0

QGt(x, y) == ~x.nan /\ ~y.nan /\ QCmp(x, y) > 0

QEq(x, y) == ~x.nan /\ ~y.nan /\ QCmp(x, y) = 0

QNe(x, y) == ~QEq(x, y)

QIsInf(x) == ~x.nan /\ x.d = <<>>

----------------------------------------------------------------------------
(* BaseStrategy *)

validate_dataColumnsOnly(frame) ==
    IF \E col \in RequiredColumns : col \notin frame.columns
    THEN "ValueError"
    ELSE "ok"

\* validate_data: the error it raises, or "ok"
validate_data(frame) ==
    IF \E col \in RequiredColumns : col \notin frame.columns
    THEN "ValueError"
    ELSE IF frame.Close = <<>> THEN "ValueError" ELSE "ok"

\* calculate_positions: df['Position'] = df['Signal'].fillna(0)
Position(sig, t) == sig[t].Signal

\* calculate_positions: the frame of generate_signals with the Position column
calculate_positions(sig) ==
    [t \in 1..Len(sig) |-> [Position |-> Position(sig, t)] @@ sig[t]]

----------------------------------------------------------------------------
(* Backtester.run: the columns it adds, each as a function of the bar t *)

ReturnsOfNextBar(closes, t) ==
    IF t = Len(closes) THEN FNaN ELSE Frac(closes[t + 1] - closes[t], closes[t])

\* df['Close'].pct_change()
Returns(closes, t) ==
    IF t = 1 THEN FNaN ELSE Frac(closes[t] - closes[t - 1], closes[t - 1])

\* df['Position'] * position_size
Position_Size(sig, psize, t) == FInt(Position(sig, t) * psize)

\* df['Position_Size'].shift(1): the previous row's value, NaN in the first row
Position_Size_shift1(sig, psize, t) ==
    IF t = 1 THEN FNaN ELSE Position_Size(sig, psize, t - 1)

\* df['Position'].diff().abs()
Trade(sig, t) ==
    IF t = 1 THEN FNaN ELSE FAbs(FInt(Position(sig, t) - Position(sig, t - 1)))

Commission_Cost(sig, t) == FMul(Trade(sig, t), Frac(Commission, RateScale))

Slippage_Cost(sig, t) == FMul(Trade(sig, t), Frac(Slippage, RateScale))

Total_Cost(sig, t) == FAdd(Commission_Cost(sig, t), Slippage_Cost(sig, t))

Strategy_ReturnsSameBar(sig, closes, psize, t) ==
    FSub(FMul(Position_Size(sig, psize, t), Returns(closes, t)), Total_Cost(sig, t))

\* df['Position_Size'].shift(1) * df['Returns'] - df['Total_Cost']
Strategy_Returns(sig, closes, psize, t) ==
    FSub(FMul(Position_Size_shift1(sig, psize, t), Returns(closes, t)),
         Total_Cost(sig, t))

\* cumprod() of a column: NaN where the value is NaN, elsewhere the product
\* of the values up to the bar that are not NaN (acc)
RECURSIVE cumprodFrom(_, _, _, _)
cumprodFrom(xs, t, acc, out) ==
    IF t > Len(xs) THEN out
    ELSE LET x == xs[t]
             prod == QMul(acc, x)
         IN  IF x.nan THEN cumprodFrom(xs, t + 1, acc, Append(out, QNaN))
             ELSE cumprodFrom(xs, t + 1, prod, Append(out, prod))

cumprod(xs) == cumprodFrom(xs, 1, QInt(1), <<>>)

\* cummax() of a column: NaN where the value is NaN, elsewhere the highest of
\* the values up to the bar that are not NaN (acc, NaN while there is none)
RECURSIVE cummaxFrom(_, _, _, _)
cummaxFrom(xs, t, acc, out) ==
    IF t > Len(xs) THEN out
    ELSE LET x == xs[t]
             high == IF acc.nan \/ QGt(x, acc) THEN x ELSE acc
         IN  IF x.nan THEN cummaxFrom(xs, t + 1, acc, Append(out, QNaN))
             ELSE cummaxFrom(xs, t + 1, high, Append(out, high))

cummax(xs) == cummaxFrom(xs, 1, QNaN, <<>>)

\* (1 + df['Strategy_Returns']).cumprod()
Cumulative_Returns(strategy_returns) ==
    cumprod([t \in 1..Len(strategy_returns) |->
                 QFrac(FAdd(FInt(1), strategy_returns[t]))])

\* self.initial_capital * df['Cumulative_Returns']
Portfolio_Value(cumulative_returns) ==
    [t \in 1..Len(cumulative_returns) |->
         QMul(QInt(InitialCapital), cumulative_returns[t])]

\* df['Portfolio_Value'].cummax()
Peak(portfolio_value) == cummax(portfolio_value)

\* (df['Portfolio_Value'] - df['Peak']) / df['Peak']
Drawdown(portfolio_value, peak) ==
    [t \in 1..Len(portfolio_value) |->
         LET value == portfolio_value[t]
             high == peak[t]
         IN  QDiv(QSub(value, high), high)]

BacktestRow(sig, closes, psize, t) ==
    [Close |-> closes[t],
     Signal |-> sig[t].Signal,
     Buy_Quantity |-> sig[t].Buy_Quantity,
     Sell_Count |-> sig[t].Sell_Count,
     Position_Count |-> sig[t].Position_Count,
     Total_Quantity |-> sig[t].Total_Quantity,
     Position |-> Position(sig, t),
     Returns |-> Returns(closes, t),
     Position_Size |-> Position_Size(sig, psize, t),
     Trade |-> Trade(sig, t),
     Commission_Cost |-> Commission_Cost(sig, t),
     Slippage_Cost |-> Slippage_Cost(sig, t),
     Total_Cost |-> Total_Cost(sig, t),
     Strategy_Returns |-> Strategy_Returns(sig, closes, psize, t)]

\* the frame run() stores: the columns above and the equity curve computed
\* from the Strategy_Returns column
BacktestRows(sig, closes, psize) ==
    LET cumulative_returns ==
            Cumulative_Returns([t \in 1..Len(closes) |->
                                    Strategy_Returns(sig, closes, psize, t)])
        portfolio_value == Portfolio_Value(cumulative_returns)
        peak == Peak(portfolio_value)
        drawdown == Drawdown(portfolio_value, peak)
    IN  [t \in 1..Len(closes) |->
            [Cumulative_Returns |-> cumulative_returns[t],
             Portfolio_Value |-> portfolio_value[t],
             Peak |-> peak[t],
             Drawdown |-> drawdown[t]] @@ BacktestRow(sig, closes, psize, t)]

----------------------------------------------------------------------------
(* Backtester.calculate_metrics *)

\* the values of a column that are not NaN (pandas' mean, std and min skip NaN)
dropna(col) == SelectSeq(col, LAMBDA x : ~x.nan)

RECURSIVE QSum(_, _)
QSum(xs, k) == IF k = 0 THEN QInt(0) ELSE QAdd(QSum(xs, k - 1), xs[k])

\* Series.mean(): NaN when no value is left
mean(col) ==
    LET xs == dropna(col)
    IN  IF xs = <<>> THEN QNaN ELSE QDiv(QSum(xs, Len(xs)), QInt(Len(xs)))

\* Series.std(), the sample standard deviation (ddof = 1), as far as the
\* metrics depend on it: "NaN" for fewer than two values, "0" when the values
\* are all equal, "+" otherwise
std(col) ==
    LET xs == dropna(col)
    IN  IF Len(xs) < 2 THEN "NaN"
        ELSE IF \A i \in 1..Len(xs) : QEq(xs[i], xs[1]) THEN "0"
        ELSE "+"

\* Series.min(): NaN when no value is left
RECURSIVE QMin(_, _)
QMin(xs, k) ==
    IF k = 1 THEN xs[1]
    ELSE LET before == QMin(xs, k - 1)
         IN  IF QLt(xs[k], before) THEN xs[k] ELSE before

min(col) ==
    LET xs == dropna(col)
    IN  IF xs = <<>> THEN QNaN ELSE QMin(xs, Len(xs))

\* a float as far as Sharpe and Sortino are modelled: "NaN", "0", "-" or "+"
Sign(x) ==
    IF x.nan THEN "NaN" ELSE IF x.n = <<>> THEN "0" ELSE IF x.neg THEN "-" ELSE "+"

\* (returns_mean / deviation) * np.sqrt(252) if deviation != 0 else 0, where
\* NaN != 0 is True and a division by NaN gives NaN
annualised_ratio(returns_mean, deviation) ==
    IF deviation # "0"
    THEN IF deviation = "NaN" THEN "NaN" ELSE Sign(returns_mean)
    ELSE "0"

Metrics(res) ==
    LET strategy_returns == [t \in 1..Len(res) |-> QFrac(res[t].Strategy_Returns)]
        total_return ==
            QSub(QDiv(res[Len(res)].Portfolio_Value, QInt(InitialCapital)), QInt(1))
        winning_trades == SelectSeq(strategy_returns, LAMBDA x : QGt(x, QInt(0)))
        losing_trades == SelectSeq(strategy_returns, LAMBDA x : QLt(x, QInt(0)))
        returns_mean == mean(strategy_returns)
        returns_std == std(strategy_returns)
        downside_std == std(losing_trades)
        max_drawdown == min([t \in 1..Len(res) |-> res[t].Drawdown])
        avg_win == IF Len(winning_trades) > 0 THEN mean(winning_trades) ELSE QInt(0)
        avg_loss == IF Len(losing_trades) > 0 THEN mean(losing_trades) ELSE QInt(0)
    IN  [Final_Value |-> res[Len(res)].Portfolio_Value,
         Total_Return |-> total_return,
         Profit_Factor |->
             IF QNe(avg_loss, QInt(0)) THEN QAbs(QDiv(avg_win, avg_loss)) ELSE QInt(0),
         Sharpe_Ratio |-> annualised_ratio(returns_mean, returns_std),
         Sortino_Ratio |-> annualised_ratio(returns_mean, downside_std),
         Max_Drawdown |-> max_drawdown,
         Calmar_Ratio |->
             IF QNe(max_drawdown, QInt(0))
             THEN QDiv(total_return, QAbs(max_drawdown))
             ELSE QInt(0)]

----------------------------------------------------------------------------
(* State machine *)

Call(op, outcome) == [op |-> op, outcome |-> outcome]

\* the engine and the strategy as their constructors leave them
Constructed ==
    /\ pc = "idle"
    /\ data = NoFrame
    /\ position_size = 1
    /\ idx = 0
    /\ buy_positions = <<>>
    /\ rows = <<>>
    /\ results = None
    /\ last = Call("init", "ok")
    /\ signals = None
    /\ positions = None
    /\ metrics = None

\* no direct call has been made
Untouched ==
    /\ quantities = {} /\ _config = None /\ lookup = None
    /\ use_db = FALSE /\ db = None /\ data_cache = <<>>
    /\ fetched = None /\ multiple = None
    /\ dbcall = None /\ second = None

Init == cfg \in Configs /\ Constructed /\ Untouched

\* the errors validate_data raises on the frames it rejects
Rejections == {validate_data(frame) : frame \in Frames} \ {"ok"}

RunInvalidClearsResults ==
    /\ pc \in {"idle", "done"}
    /\ \E error \in Rejections : last' = Call("run", error)
    /\ metrics' = None
    /\ results' = None
    /\ UNCHANGED <<cfg, pc, data, position_size, idx, buy_positions, rows,
                   signals, positions, outside>>

\* Backtester.run -> apply_strategy -> validate_data fails: the error
\* propagates, nothing is stored
RunInvalid ==
    /\ pc \in {"idle", "done"}
    /\ \E error \in Rejections : last' = Call("run", error)
    /\ metrics' = None
    /\ UNCHANGED <<cfg, pc, data, position_size, idx, buy_positions, rows, results,
                   signals, positions, outside>>

\* Backtester.run -> apply_strategy -> generate_signals up to the for-loop,
\* on a frame of the given set
StartRunOn(frames) ==
    /\ pc = "idle"
    /\ ~RollingRaises(cfg)
    /\ \E frame \in frames :
          /\ validate_data(frame) = "ok"
          /\ data' = frame
    /\ pc' = "loop"
    /\ idx' = 0
    /\ buy_positions' = <<>>
    /\ rows' = <<>>
    /\ last' = Call("run", "running")
    /\ metrics' = None
    /\ UNCHANGED <<cfg, position_size, results, signals, positions, outside>>

StartRun == StartRunOn(Frames)

\* one iteration of the for-loop of generate_signals
Bar ==
    /\ pc = "loop"
    /\ idx < Len(data.Close)
    /\ LET step == BarStep(cfg, data.Close, idx + 1, buy_positions)
       IN  IF step.raises
           THEN /\ pc' = "idle"
                /\ data' = NoFrame
                /\ idx' = 0
                /\ buy_positions' = <<>>
                /\ rows' = <<>>
                /\ last' = Call("run", "OverflowError")
           ELSE /\ pc' = "loop"
                /\ data' = data
                /\ idx' = idx + 1
                /\ buy_positions' = step.book
                /\ rows' = Append(rows, step.row)
                /\ last' = last
    /\ UNCHANGED <<cfg, position_size, results, signals, positions, metrics, outside>>

\* the loop is over: apply_strategy stores the signals and the positions,
\* run adds the backtest columns, self.results = df, return df
FinishRun ==
    /\ pc = "loop"
    /\ idx = Len(data.Close)
    /\ signals' = rows
    /\ positions' = calculate_positions(rows)
    /\ \E psize \in PositionSizes :
          /\ position_size' = psize
          /\ results' = BacktestRows(rows, data.Close, psize)
    /\ metrics' = None
    /\ pc' = "done"
    /\ last' = Call("run", "ok")
    /\ UNCHANGED <<cfg, data, idx, buy_positions, rows, outside>>

PreconditionUnchecked(res) == "ok"

\* the guard shared by get_trade_log, calculate_metrics and
\* compare_with_buy_and_hold
Precondition(res) == IF res = None THEN "ValueError" ELSE "ok"

Query(op) ==
    /\ pc \in {"idle", "done"}
    /\ last' = Call(op, Precondition(results))
    /\ metrics' = IF op = "calculate_metrics" /\ Precondition(results) = "ok"
                  THEN Metrics(results)
                  ELSE None
    /\ UNCHANGED <<cfg, pc, data, position_size, idx, buy_positions, rows, results,
                   signals, positions, outside>>

get_trade_log == Query("get_trade_log")

calculate_metrics == Query("calculate_metrics")

compare_with_buy_and_hold == Query("compare_with_buy_and_hold")

Next ==
    \/ RunInvalid
    \/ StartRun
    \/ Bar
    \/ FinishRun
    \/ get_trade_log
    \/ calculate_metrics
    \/ compare_with_buy_and_hold

Spec == Init /\ [][Next]_vars

----------------------------------------------------------------------------
(* The reference scenario: the strategy with the pullback trigger switched
   off by a threshold no drop reaches, run on the reference series and on
   the series that share its first three bars. *)

ReferenceCloses == <<100, 95, 90, 96, 99>>

ScenarioPrices == {90, 95, 96, 99, 100}

ScenarioSeries ==
    {s \in [1..Len(ReferenceCloses) -> ScenarioPrices] :
        SubSeq(s, 1, 3) = SubSeq(ReferenceCloses, 1, 3)}

ScenarioFrames == {[columns |-> RequiredColumns, Close |-> s] : s \in ScenarioSeries}

ScenarioConfigs ==
    [max_positions : {10},
     profit_target_percent : {3},
     first_day_buy : {TRUE},
     lookback_days : {7},
     pullback_percent : {101},   \* a drop from the high is below 100%
     position_scaling : {FALSE},
     base_quantity : {1, 2},
     depth_threshold : {DepthThreshold},
     max_quantity_multiplier : {MaxQuantityMultiplier}]

InitScenario == cfg \in ScenarioConfigs /\ Constructed /\ Untouched

StartScenario == StartRunOn(ScenarioFrames)

NextScenario ==
    \/ StartScenario
    \/ Bar
    \/ FinishRun

SpecScenario == InitScenario /\ [][NextScenario]_vars

----------------------------------------------------------------------------
(* _calculate_quantity called directly, on drop depths d >= 0 given as the
   fractions n/d *)

Drops == [n : 0..MaxDrop, d : {1, 2}]

QuantityConfigs ==
    [max_positions : {1},
     profit_target_percent : {3},
     first_day_buy : {TRUE},
     lookback_days : {1},
     pullback_percent : {3},
     position_scaling : BOOLEAN,
     base_quantity : {1, 3},
     depth_threshold : {2, DepthThreshold},
     max_quantity_multiplier : {1, MaxQuantityMultiplier}]

InitQuantity == cfg \in QuantityConfigs /\ Constructed /\ Untouched

CalculateQuantity ==
    /\ Cardinality(quantities) < 2
    /\ \E drop \in Drops :
          /\ ~QuantityRaises(cfg, drop)
          /\ quantities' =
                 quantities \cup
                     {[drop_from_avg |-> drop,
                       quantity |-> _calculate_quantity(cfg, drop)]}
    /\ UNCHANGED <<cfg, pc, data, position_size, idx, buy_positions, rows, results,
                   last, signals, positions, metrics, _config, lookup, fetcher,
                   dbcall, second>>

NextQuantity == CalculateQuantity

SpecQuantity == InitQuantity /\ [][NextQuantity]_vars

----------------------------------------------------------------------------
(* Config (utils/config.py): the loaded config.yaml and the lookup of the
   daily_dca settings.

   A Python string is the sequence of its pieces, the dot being a piece of its
   own: 'balanced' is <<"balanced">>, 'a.b' is <<"a", ".", "b">> and '' is <<>>.
   A value of the loaded YAML is None or carries its type: a mapping from
   dot-free keys to values, or a number. *)

dict(items) == [type |-> "dict", value |-> items]

int(n) == [type |-> "int", value |-> n]

IsDict(value) == "type" \in DOMAIN value /\ value.type = "dict"

\* Python's truth test on a string: '' is false, and so is None
Given(preset) == preset # <<>>

\* Python's truth test on a value of the YAML: None, {} and 0 are false
Truthy(value) ==
    /\ value # None
    /\ IsDict(value) => DOMAIN value.value # {}
    /\ ("type" \in DOMAIN value /\ value.type = "int") => value.value # 0

RECURSIVE splitFrom(_, _, _, _)
splitFrom(key, i, part, keys) ==
    IF i > Len(key) THEN Append(keys, part)
    ELSE IF key[i] = "." THEN splitFrom(key, i + 1, <<>>, Append(keys, part))
    ELSE splitFrom(key, i + 1, Append(part, key[i]), keys)

\* key.split('.')
split(key) == splitFrom(key, 1, <<>>, <<>>)

\* value[k] raises KeyError on a mapping without the key k and TypeError on
\* None and on a number
Subscriptable(value, k) ==
    /\ IsDict(value)
    /\ Len(k) = 1
    /\ k[1] \in DOMAIN value.value

RECURSIVE getFrom(_, _, _, _)
getFrom(value, keys, i, default) ==
    IF i > Len(keys) THEN value
    ELSE IF Subscriptable(value, keys[i])
         THEN getFrom(value.value[keys[i][1]], keys, i + 1, default)
         ELSE default

\* Config.get on the loaded configuration
get(loaded, key, default) == getFrom(loaded, split(key), 1, default)

\* {k: v for k, v in base_config.items() if k not in ['presets', 'name']}
WithoutPresetsAndName(base_config) ==
    dict([k \in DOMAIN base_config.value \ {"presets", "name"} |->
             base_config.value[k]])

\* Config.get_daily_dca_config: what it returns and whether it printed the
\* warning
get_daily_dca_config(loaded, preset) ==
    LET preset_config ==
            get(loaded,
                <<"strategies", ".", "daily_dca", ".", "presets", ".">> \o preset,
                None)
        base_config ==
            get(loaded, <<"strategies", ".", "daily_dca">>, dict(<<>>))
    IN  IF Given(preset) /\ Truthy(preset_config)
        THEN [returned |-> preset_config, warned |-> FALSE]
        ELSE [returned |-> WithoutPresetsAndName(base_config),
              warned |-> Given(preset)]

\* the parameter sets a preset of config.yaml may hold
PresetSettings ==
    {dict([max_positions |-> int(5), profit_target_percent |-> int(3)]),
     dict([max_positions |-> int(20), profit_target_percent |-> int(5)]),
     dict(<<>>)}

\* the presets section of config.yaml
PresetSections ==
    UNION {[names -> PresetSettings] : names \in SUBSET {"balanced", "fixed"}}

\* the strategies.daily_dca section of config.yaml
DailyDcaSections ==
    {dict([name |-> int(1), max_positions |-> int(m)]) : m \in {10, 30}}
    \cup {dict([name |-> int(1), max_positions |-> int(m),
                presets |-> dict(presets)]) :
              m \in {10, 30}, presets \in PresetSections}

\* what yaml.safe_load may have read: strategies.daily_dca is a mapping or is
\* not there
Yamls ==
    {dict([strategies |-> dict(<<>>)])}
    \cup {dict([strategies |-> dict([daily_dca |-> section])]) :
              section \in DailyDcaSections}

\* the preset arguments: None or '', a name, a dotted name
PresetArguments ==
    {<<>>, <<"balanced">>, <<"fixed">>, <<"turbo">>,
     <<"balanced", ".", "max_positions">>}

InitConfig ==
    /\ cfg \in QuantityConfigs /\ cfg.position_scaling /\ cfg.base_quantity = 1
    /\ cfg.depth_threshold = DepthThreshold
    /\ cfg.max_quantity_multiplier = MaxQuantityMultiplier
    /\ Constructed
    /\ quantities = {}
    /\ _config \in Yamls
    /\ lookup = None
    /\ use_db = FALSE /\ db = None /\ data_cache = <<>>
    /\ fetched = None /\ multiple = None
    /\ dbcall = None /\ second = None

GetDailyDcaConfig ==
    /\ \E preset \in PresetArguments :
          lookup' = [preset |-> preset] @@ get_daily_dca_config(_config, preset)
    /\ UNCHANGED <<cfg, pc, data, position_size, idx, buy_positions, rows, results,
                   last, signals, positions, metrics, quantities, _config, fetcher,
                   dbcall, second>>

NextConfig == GetDailyDcaConfig

SpecConfig == InitConfig /\ [][NextConfig]_vars

----------------------------------------------------------------------------
(* DataFetcher (data/data_fetcher.py) over MarketDataDB (data/database.py).
   The database is the record of its two tables: market_data, a set of rows
   unique in (symbol, date, interval), and metadata, with at most one row per
   symbol, the function from the symbols it has a row for to that row.

   A Timestamp is the number of its day, at midnight. A date text is the
   sequence of its fields, compared as SQLite compares TEXT: '%Y-%m-%d' of the
   day d is <<d>> and '%Y-%m-%d %H:%M:%S' of it is <<d, 0>>. A DataFrame is the
   function from its index to its Close; the empty frame and None are both
   <<>>, which the code treats alike (data_fetcher.py line 85). A dict is the
   function from its keys to their values. *)

Symbols == {"TQQQ", "SOXL"}

Days == 1..MaxDay

\* strftime('%Y-%m-%d')
strftime_date(timestamp) == <<timestamp>>

\* strftime('%Y-%m-%d %H:%M:%S')
strftime_seconds(timestamp) == <<timestamp, 0>>

\* pd.to_datetime of a date text
to_datetime(text) == text[1]

RECURSIVE TextLeFrom(_, _, _)
TextLeFrom(a, b, i) ==
    IF i > Len(a) THEN TRUE
    ELSE IF i > Len(b) THEN FALSE
    ELSE IF a[i] # b[i] THEN a[i] < b[i]
    ELSE TextLeFrom(a, b, i + 1)

\* a <= b on TEXT values: a proper prefix is the smaller text
TextLe(a, b) == TextLeFrom(a, b, 1)

SetMin(S) == CHOOSE x \in S : \A y \in S : x <= y

SetMax(S) == CHOOSE x \in S : \A y \in S : x >= y

\* MarketDataDB._create_tables on a new file
EmptyDatabase == [market_data |-> {}, metadata |-> <<>>]

\* plain INSERT without the UNIQUE constraint
insert(market_data, symbol, df, interval) ==
    market_data \cup {[symbol |-> symbol, date |-> strftime_seconds(d), close |-> df[d],
                       interval |-> interval] : d \in DOMAIN df}

\* the rows of df INSERTed OR REPLACEd one by one into market_data, whose rows
\* are unique in (symbol, date, interval)
insert_or_replace(market_data, symbol, df, interval) ==
    LET written == {[symbol |-> symbol, date |-> strftime_seconds(d), close |-> df[d],
                     interval |-> interval] : d \in DOMAIN df}
        replaced == {row \in market_data :
                        \E w \in written : /\ w.symbol = row.symbol
                                            /\ w.date = row.date
                                            /\ w.interval = row.interval}
    IN  (market_data \ replaced) \cup written

\* the row of df's symbol INSERTed OR REPLACEd into metadata, whose primary key
\* is the symbol: the first and last date of df and the number of rows saved
update_metadata(metadata, symbol, df, interval) ==
    (symbol :> [interval |-> interval,
                first_date |-> strftime_seconds(SetMin(DOMAIN df)),
                last_date |-> strftime_seconds(SetMax(DOMAIN df)),
                record_count |-> Cardinality(DOMAIN df)]) @@ metadata

\* MarketDataDB.save_data
save_data(database, symbol, df, interval) ==
    IF df = <<>> THEN database
    ELSE [market_data |-> insert_or_replace(database.market_data, symbol, df, interval),
          metadata |-> update_metadata(database.metadata, symbol, df, interval)]

\* MarketDataDB.get_data
get_data(database, symbol, start_date, end_date, interval) ==
    LET selected ==
            {row \in database.market_data :
                /\ row.symbol = symbol
                /\ row.interval = interval
                /\ start_date # None => TextLe(start_date, row.date)
                /\ end_date # None => TextLe(row.date, end_date)}
    IN  IF selected = {} THEN None
        ELSE [d \in {to_datetime(row.date) : row \in selected} |->
                 (CHOOSE row \in selected : to_datetime(row.date) = d).close]

\* DataFetcher._is_data_sufficient, datetime.now() being on the day now
_is_data_sufficient(df, start_date, end_date, now) ==
    IF df = <<>> THEN FALSE
    ELSE LET db_start == SetMin(DOMAIN df)
             db_end == SetMax(DOMAIN df)
         IN  IF start_date # None /\ end_date # None
             THEN db_start <= to_datetime(start_date) /\ db_end >= to_datetime(end_date)
             ELSE now - db_end <= FreshDays

\* DataFetcher.fetch_data on the fetcher's fields, with the provider's answer
\* to ticker.history should it be asked: whether the call raised, what it
\* returned, the fields it leaves and whether the provider was called
fetch_data(use, database, cache, symbol, start_date, end_date, force_update, now, answer) ==
    LET start_str == IF start_date # None
                     THEN strftime_date(to_datetime(start_date)) ELSE None
        end_str == IF end_date # None
                   THEN strftime_date(to_datetime(end_date)) ELSE None
        db_data == IF use /\ ~force_update
                   THEN get_data(database, symbol, start_str, end_str, "1d")
                   ELSE None
        df == answer.df
    IN  IF db_data # None /\ _is_data_sufficient(db_data, start_date, end_date, now)
        THEN [raised |-> FALSE, returned |-> db_data, provider |-> FALSE,
              db |-> database, data_cache |-> (symbol :> db_data) @@ cache]
        ELSE IF answer.raises \/ df = <<>>
        THEN [raised |-> TRUE, returned |-> None, provider |-> TRUE,
              db |-> database, data_cache |-> cache]
        ELSE [raised |-> FALSE, returned |-> df, provider |-> TRUE,
              db |-> IF use THEN save_data(database, symbol, df, "1d") ELSE database,
              data_cache |-> (symbol :> df) @@ cache]

\* what ticker.history may do: raise, return an empty frame, return bars
Answers ==
    {[raises |-> TRUE, df |-> <<>>], [raises |-> FALSE, df |-> <<>>]}
    \cup {[raises |-> FALSE, df |-> [d \in first..MaxDay |-> 11]] : first \in Days}

\* the date arguments: None or a date text
DateArguments == {None} \cup {strftime_date(d) : d \in Days}

\* the days datetime.now() may fall on
Nows == MaxDay..(MaxDay + FreshDays + 1)

\* the stores earlier fetches of TQQQ may have left
Stores == {save_data(EmptyDatabase, "TQQQ", [d \in ds |-> 10], "1d") : ds \in SUBSET Days}

InitFetch ==
    /\ cfg \in ScenarioConfigs /\ cfg.base_quantity = 1
    /\ Constructed
    /\ quantities = {} /\ _config = None /\ lookup = None
    /\ use_db \in BOOLEAN
    /\ db \in IF use_db THEN Stores ELSE {None}
    /\ data_cache = <<>>
    /\ fetched = None
    /\ multiple = None
    /\ dbcall = None
    /\ second = None

\* one call of fetch_data
FetchData ==
    /\ fetched = None
    /\ \E symbol \in {"TQQQ"}, start_date \in DateArguments, end_date \in DateArguments,
          force_update \in BOOLEAN, now \in Nows, answer \in Answers :
          LET call == fetch_data(use_db, db, data_cache, symbol, start_date, end_date,
                                 force_update, now, answer)
          IN  /\ fetched' = [symbol |-> symbol, start_date |-> start_date,
                             end_date |-> end_date, force_update |-> force_update,
                             now |-> now, raised |-> call.raised,
                             returned |-> call.returned, provider |-> call.provider]
              /\ db' = call.db
              /\ data_cache' = call.data_cache
    /\ UNCHANGED <<engine, second, dbcall, quantities, _config, lookup, use_db, multiple>>

NextFetch == FetchData

SpecFetch == InitFetch /\ [][NextFetch]_vars

----------------------------------------------------------------------------
(* DataFetcher.fetch_multiple, one iteration of its loop at a time *)

\* no except clause: the failure leaves fetch_multiple
OnExceptionPropagates(frame) == [frame EXCEPT !.pc = "raised"]

\* except Exception: the failure is printed and the loop goes on
OnException(frame) == [frame EXCEPT !.at = frame.at + 1]

\* the symbol lists
SymbolLists == UNION {[1..n -> Symbols] : n \in 0..MaxSymbols}

InitMultiple ==
    /\ cfg \in ScenarioConfigs /\ cfg.base_quantity = 1
    /\ Constructed
    /\ quantities = {} /\ _config = None /\ lookup = None
    /\ use_db \in BOOLEAN
    /\ db \in IF use_db
                THEN {save_data(EmptyDatabase, "TQQQ", [d \in ds |-> 10], "1d") :
                          ds \in {{}, Days}}
                ELSE {None}
    /\ data_cache = <<>>
    /\ fetched = None
    /\ multiple = None
    /\ dbcall = None
    /\ second = None

\* fetch_multiple is called: data_dict = {}
FetchMultiple ==
    /\ multiple = None
    /\ \E symbols \in SymbolLists, start_date \in {None, strftime_date(1)},
          now \in {MaxDay, MaxDay + FreshDays + 1} :
          multiple' = [pc |-> "loop", symbols |-> symbols, start_date |-> start_date,
                       end_date |-> None, now |-> now, at |-> 1, data_dict |-> <<>>,
                       attempts |-> <<>>]
    /\ UNCHANGED <<engine, second, dbcall, quantities, _config, lookup, use_db, db, data_cache, fetched>>

\* the body of the loop for the next symbol
Attempt ==
    /\ multiple # None /\ multiple.pc = "loop" /\ multiple.at <= Len(multiple.symbols)
    /\ \E answer \in Answers :
          LET symbol == multiple.symbols[multiple.at]
              call == fetch_data(use_db, db, data_cache, symbol, multiple.start_date,
                                 multiple.end_date, FALSE, multiple.now, answer)
              tried == [multiple EXCEPT
                           !.attempts = Append(@, [symbol |-> symbol,
                                                   raised |-> call.raised,
                                                   returned |-> call.returned])]
          IN  /\ multiple' =
                     IF call.raised THEN OnException(tried)
                     ELSE [tried EXCEPT !.data_dict = (symbol :> call.returned) @@ @,
                                        !.at = @ + 1]
              /\ db' = call.db
              /\ data_cache' = call.data_cache
    /\ UNCHANGED <<engine, second, dbcall, quantities, _config, lookup, use_db, fetched>>

\* return data_dict
ReturnMultiple ==
    /\ multiple # None /\ multiple.pc = "loop" /\ multiple.at > Len(multiple.symbols)
    /\ multiple' = [multiple EXCEPT !.pc = "returned"]
    /\ UNCHANGED <<engine, second, dbcall, quantities, _config, lookup, use_db, db, data_cache, fetched>>

NextMultiple == FetchMultiple \/ Attempt \/ ReturnMultiple

SpecMultiple == InitMultiple /\ [][NextMultiple]_vars

----------------------------------------------------------------------------
(* MarketDataDB called directly: save_data and delete_data on one symbol,
   with two intervals *)

Intervals == {"1d", "1h"}

\* the frames handed to save_data: bars on one or two days, or none
StoreFrames ==
    {<<>>} \cup {[d \in ds |-> close] : ds \in (SUBSET {1, 2}) \ {{}}, close \in {10, 11}}

\* MarketDataDB.delete_data
delete_data(database, symbol, interval) ==
    [market_data |->
         {row \in database.market_data :
             ~(row.symbol = symbol /\ row.interval = interval)},
     metadata |->
         [s \in {k \in DOMAIN database.metadata :
                    ~(k = symbol /\ database.metadata[k].interval = interval)} |->
             database.metadata[s]]]

\* MarketDataDB.get_date_range: the metadata row of the symbol and interval
get_date_range(database, symbol, interval) ==
    IF /\ symbol \in DOMAIN database.metadata
       /\ database.metadata[symbol].interval = interval
    THEN <<database.metadata[symbol].first_date, database.metadata[symbol].last_date>>
    ELSE None

\* MarketDataDB.has_data
has_data(database, symbol, interval) == get_date_range(database, symbol, interval) # None

InitStore ==
    /\ cfg \in ScenarioConfigs /\ cfg.base_quantity = 1
    /\ Constructed
    /\ quantities = {} /\ _config = None /\ lookup = None
    /\ use_db = TRUE /\ db = EmptyDatabase /\ data_cache = <<>>
    /\ fetched = None /\ multiple = None
    /\ dbcall = None
    /\ second = None

SaveData ==
    /\ \E symbol \in {"TQQQ"}, interval \in Intervals, df \in StoreFrames :
          /\ db' = save_data(db, symbol, df, interval)
          /\ dbcall' = [op |-> "save_data", symbol |-> symbol, interval |-> interval,
                        df |-> df, before |-> db]
    /\ UNCHANGED <<engine, second, quantities, _config, lookup, use_db, data_cache,
                   fetched, multiple>>

DeleteData ==
    /\ \E symbol \in {"TQQQ"}, interval \in Intervals :
          /\ db' = delete_data(db, symbol, interval)
          /\ dbcall' = [op |-> "delete_data", symbol |-> symbol, interval |-> interval,
                        df |-> <<>>, before |-> db]
    /\ UNCHANGED <<engine, second, quantities, _config, lookup, use_db, data_cache,
                   fetched, multiple>>

NextStore == SaveData \/ DeleteData

SpecStore == InitStore /\ [][NextStore]_vars

----------------------------------------------------------------------------
(* Two engines, each with its own strategy: the first runs once, the second
   is run again and again on the same strategy instance, their steps
   interleaved. The second engine is the record of its fields, of its
   strategy's fields and of the frames its completed runs were given and
   returned. *)

RerunFrames ==
    {[columns |-> RequiredColumns, Close |-> s] :
         s \in UNION {[1..n -> {45, 50}] : n \in 1..2}}

RerunConfigs ==
    [max_positions : {2},
     profit_target_percent : {3},
     first_day_buy : BOOLEAN,
     lookback_days : {1},
     pullback_percent : {3},
     position_scaling : {FALSE},
     base_quantity : {1},
     depth_threshold : {DepthThreshold},
     max_quantity_multiplier : {MaxQuantityMultiplier}]

\* Backtester() and DailyDCAStrategy(...) for the second engine
SecondConstructed(c) ==
    [cfg |-> c, pc |-> "idle", data |-> NoFrame, idx |-> 0, buy_positions |-> <<>>,
     rows |-> <<>>, results |-> None, returned |-> <<>>]

InitRerun ==
    /\ cfg \in RerunConfigs
    /\ Constructed
    /\ quantities = {} /\ _config = None /\ lookup = None
    /\ use_db = FALSE /\ db = None /\ data_cache = <<>>
    /\ fetched = None /\ multiple = None
    /\ dbcall = None
    /\ second \in {SecondConstructed(c) : c \in RerunConfigs}

StartFirst == StartRunOn(RerunFrames)

\* the second engine's run reaches the for-loop with the lot book of its
\* strategy's last run
SecondStartKeepingBook ==
    /\ second.pc \in {"idle", "done"}
    /\ Len(second.returned) < 2
    /\ \E frame \in RerunFrames :
          second' = [second EXCEPT !.pc = "loop", !.data = frame, !.idx = 0,
                                   !.rows = <<>>]
    /\ UNCHANGED <<engine, quantities, _config, lookup, fetcher, dbcall>>

\* Backtester.run on the second engine, a first time or again, up to the
\* for-loop of generate_signals: buy_positions = []
SecondStart ==
    /\ second.pc \in {"idle", "done"}
    /\ Len(second.returned) < 2
    /\ \E frame \in RerunFrames :
          second' = [second EXCEPT !.pc = "loop", !.data = frame, !.idx = 0,
                                   !.buy_positions = <<>>, !.rows = <<>>]
    /\ UNCHANGED <<engine, quantities, _config, lookup, fetcher, dbcall>>

\* one iteration of the for-loop in the second engine's run
SecondBar ==
    /\ second.pc = "loop"
    /\ second.idx < Len(second.data.Close)
    /\ LET step == BarStep(second.cfg, second.data.Close, second.idx + 1,
                           second.buy_positions)
       IN  second' =
               IF step.raises
               THEN [second EXCEPT !.pc = "idle", !.data = NoFrame, !.idx = 0,
                                   !.buy_positions = <<>>, !.rows = <<>>]
               ELSE [second EXCEPT !.idx = @ + 1, !.buy_positions = step.book,
                                   !.rows = Append(@, step.row)]
    /\ UNCHANGED <<engine, quantities, _config, lookup, fetcher, dbcall>>

\* the second engine's run returns
SecondFinish ==
    /\ second.pc = "loop"
    /\ second.idx = Len(second.data.Close)
    /\ LET df == BacktestRows(second.rows, second.data.Close, 1)
       IN  second' = [second EXCEPT
                         !.pc = "done", !.results = df,
                         !.returned = Append(@, [data |-> second.data, df |-> df])]
    /\ UNCHANGED <<engine, quantities, _config, lookup, fetcher, dbcall>>

NextRerun ==
    \/ StartFirst
    \/ Bar
    \/ FinishRun
    \/ SecondStart
    \/ SecondBar
    \/ SecondFinish

SpecRerun == InitRerun /\ [][NextRerun]_vars

----------------------------------------------------------------------------
(* Runs of strategies constructed with lookback_days = 0, 1 or 2 *)

LookbackConfigs ==
    [max_positions : {2},
     profit_target_percent : {3},
     first_day_buy : BOOLEAN,
     lookback_days : {0, 1, 2},
     pullback_percent : {3},
     position_scaling : {FALSE},
     base_quantity : {1},
     depth_threshold : {DepthThreshold},
     max_quantity_multiplier : {MaxQuantityMultiplier}]

InitLookback == cfg \in LookbackConfigs /\ Constructed /\ Untouched

\* Backtester.run -> apply_strategy -> generate_signals: the rolling window
\* is rejected before the loop, the error propagates, nothing is stored
RunRollingFails ==
    /\ pc \in {"idle", "done"}
    /\ RollingRaises(cfg)
    /\ \E frame \in Frames : validate_data(frame) = "ok"
    /\ last' = Call("run", "ValueError: min_periods 1 must be <= window 0")
    /\ metrics' = None
    /\ UNCHANGED <<cfg, pc, data, position_size, idx, buy_positions, rows, results,
                   signals, positions, outside>>

NextLookback == RunRollingFails \/ StartRun \/ Bar \/ FinishRun

SpecLookback == InitLookback /\ [][NextLookback]_vars

----------------------------------------------------------------------------
(* Vocabulary of the properties *)

\* the for-loop has just processed bar idx + 1 without raising
BarProcessed == pc = "loop" /\ pc' = "loop" /\ idx' = idx + 1

\* that bar is not the first one
LaterBarProcessed == BarProcessed /\ idx >= 1

\* a lot was appended by the step
Appended == Len(buy_positions') > Len(buy_positions)

\* the lots of the old book that are still in the book after the step
KeptLots ==
    IF Appended
    THEN SubSeq(buy_positions', 1, Len(buy_positions') - 1)
    ELSE buy_positions'

\* (close - entry_price) / entry_price * 100 >= profit_target_percent
TargetReached(lot, close) ==
    (close - lot.price) * 100 >= cfg.profit_target_percent * lot.price

\* the old book without the lots that reached the target at this close
BelowTarget(book, close) ==
    SelectSeq(book, LAMBDA lot : ~TargetReached(lot, close))

\* the sum of the quantities of the lots of a book, by position
RECURSIVE QuantityOfFirst(_, _)
QuantityOfFirst(book, k) ==
    IF k = 0 THEN 0 ELSE QuantityOfFirst(book, k - 1) + book[k].qty

\* the highest Close of the lookback_days bars ending at bar t
WindowHigh(t) ==
    LET W == {data.Close[j] : j \in Max(1, t - cfg.lookback_days + 1)..t}
    IN  CHOOSE h \in W : \A x \in W : x <= h

\* bar t lies pullback_percent or more below its window's high
PullbackCondition(t) ==
    (WindowHigh(t) - data.Close[t]) * 100 >= cfg.pullback_percent * WindowHigh(t)

----------------------------------------------------------------------------
(* C1. Cap invariant: after every bar processed by generate_signals the
   number of open lots, and the Position_Count recorded for every bar, is at
   most max_positions, the unconditional first-day buy included. *)
C1_CapInvariant ==
    /\ Len(buy_positions) <= cfg.max_positions
    /\ \A t \in 1..Len(rows) : rows[t].Position_Count <= cfg.max_positions

\* the book is full after a first-day buy and the last bar, a down day, did
\* not buy
C1_Witness ==
    /\ pc = "loop" /\ idx >= 2
    /\ cfg.first_day_buy
    /\ rows[1].Signal = 1
    /\ Len(buy_positions) = cfg.max_positions
    /\ data.Close[idx] < data.Close[idx - 1]
    /\ rows[idx].Signal # 1

(* C2. Lot conservation: for every bar t after the first, Position_Count[t] =
   Position_Count[t-1] + (1 if a buy executed at t) - Sell_Count[t], and the
   Position_Count and Total_Quantity recorded for the bar just processed are
   the size of the lot book and the sum of its lots' quantities. *)
C2_LotConservation ==
    /\ \A t \in 2..Len(rows) :
          rows[t].Position_Count =
              rows[t - 1].Position_Count
              + (IF rows[t].Signal = 1 THEN 1 ELSE 0) - rows[t].Sell_Count
    /\ Len(rows) > 0 =>
          /\ rows[Len(rows)].Position_Count = Len(buy_positions)
          /\ rows[Len(rows)].Total_Quantity =
                 QuantityOfFirst(buy_positions, Len(buy_positions))

\* a bar sold a lot and left another one open, after two buys
C2_Witness ==
    /\ pc = "loop" /\ idx >= 3
    /\ rows[idx].Sell_Count >= 1
    /\ rows[idx].Position_Count >= 1
    /\ rows[idx - 1].Position_Count >= 2

(* C3, as claimed. On every bar after the first, an open lot is removed from
   the lot book if and only if its profit at the bar's Close reaches
   profit_target_percent, independently of the other lots. *)
C3_SoldIffTargetReached ==
    [][LaterBarProcessed =>
          KeptLots = BelowTarget(buy_positions, data.Close[idx + 1])]_vars

(* C3, amended. On every bar after the first on which no buy executes and
   Close[t] > Close[t-1], an open lot is removed if and only if its profit at
   the bar's Close reaches profit_target_percent, independently of the other
   lots; on every other bar no lot is removed. *)
C3_SoldIffTargetReachedOnSellBar ==
    [][LaterBarProcessed =>
          KeptLots =
              IF ~Appended /\ data.Close[idx + 1] > data.Close[idx]
              THEN BelowTarget(buy_positions, data.Close[idx + 1])
              ELSE buy_positions]_vars

\* the last bar sold a lot that reached the target and kept one that did not
C3_Witness ==
    /\ pc = "loop" /\ idx >= 3
    /\ rows[idx].Signal = -1
    /\ rows[idx].Sell_Count = 1
    /\ Len(buy_positions) = 1
    /\ ~TargetReached(buy_positions[1], data.Close[idx])

(* C4. Every lot appended to the lot book has quantity >= 1: Buy_Quantity on
   a buy bar is never 0 or negative, also when the buy happens above the
   book's average price, and Total_Quantity never decreases on a buy. *)
C4_QuantityAtLeastOne ==
    /\ \A i \in 1..Len(buy_positions) : buy_positions[i].qty >= 1
    /\ \A t \in 1..Len(rows) : rows[t].Signal = 1 => rows[t].Buy_Quantity >= 1
    /\ \A t \in 2..Len(rows) :
          rows[t].Signal = 1 =>
              rows[t].Total_Quantity >= rows[t - 1].Total_Quantity

(* C5. Output domain: on every output row Signal is in {-1, 0, 1} and
   Buy_Quantity, Sell_Count, Position_Count and Total_Quantity are
   non-negative integers; Signal = 1 exactly on the bars where the lot count
   grew and Signal = -1 exactly on the bars where Sell_Count >= 1. *)
C5_OutputDomain ==
    \A t \in 1..Len(rows) :
        /\ rows[t].Signal \in {-1, 0, 1}
        /\ rows[t].Buy_Quantity \in Nat
        /\ rows[t].Sell_Count \in Nat
        /\ rows[t].Position_Count \in Nat
        /\ rows[t].Total_Quantity \in Nat
        /\ (rows[t].Signal = 1) =
               (rows[t].Position_Count >
                    IF t = 1 THEN 0 ELSE rows[t - 1].Position_Count)
        /\ (rows[t].Signal = -1) = (rows[t].Sell_Count >= 1)

(* C6, as claimed. On a bar after the first with Close[t] = Close[t-1] the
   strategy neither buys nor sells: Signal[t] = 0 and the lot book is the one
   left by bar t-1, whatever the rolling high and the pullback setting. *)
C6_EqualCloseIsNoOp ==
    [][(LaterBarProcessed /\ data.Close[idx + 1] = data.Close[idx]) =>
          /\ rows'[idx + 1].Signal = 0
          /\ buy_positions' = buy_positions]_vars

(* C6, amended. On a bar after the first with Close[t] = Close[t-1] no lot is
   sold; the bar buys (Signal[t] = 1, one lot appended at Close[t]) if and
   only if the pullback condition holds and the lot count is below
   max_positions; otherwise Signal[t] = 0 and the lot book is the one left by
   bar t-1. *)
C6_EqualCloseBuysOnlyOnPullback ==
    [][(LaterBarProcessed /\ data.Close[idx + 1] = data.Close[idx]) =>
          IF PullbackCondition(idx + 1) /\ Len(buy_positions) < cfg.max_positions
          THEN /\ rows'[idx + 1].Signal = 1
               /\ Len(buy_positions') = Len(buy_positions) + 1
               /\ KeptLots = buy_positions
               /\ buy_positions'[Len(buy_positions')].price = data.Close[idx + 1]
          ELSE /\ rows'[idx + 1].Signal = 0
               /\ buy_positions' = buy_positions]_vars

\* the last bar closed where the bar before it did, and bought on a pullback
C6_Witness ==
    /\ pc = "loop" /\ idx >= 3
    /\ data.Close[idx] = data.Close[idx - 1]
    /\ rows[idx].Signal = 1
    /\ rows[idx].Buy_Condition = "Pullback"

(* C7. No look-ahead: the output of a run at index i depends on bars 0..i
   only. For the series of a completed run and every prefix of it, running
   the strategy and the engine on the prefix alone gives, at every index of
   the prefix, the Signal, Buy_Quantity, Sell_Count, Position_Count,
   Total_Quantity and Strategy_Returns the full run stored. Two series that
   agree on bars 0..t-1 share that prefix, so their outputs agree at every
   index < t whatever the bars from t on are. (Stated where run() has just
   returned: the later calls leave results, data and cfg as they are.) *)
OutputColumns(r) ==
    <<r.Signal, r.Buy_Quantity, r.Sell_Count, r.Position_Count,
      r.Total_Quantity, r.Strategy_Returns>>

OutputOf(res) == [i \in 1..Len(res) |-> OutputColumns(res[i])]

RunOnPrefix(k) ==
    LET prefix == SubSeq(data.Close, 1, k)
        sig == generate_signals(cfg, prefix).rows
    IN  [t \in 1..k |-> BacktestRow(sig, prefix, position_size, t)]

C7_NoLookAhead ==
    (pc = "done" /\ last = Call("run", "ok")) =>
        \A k \in 1..Len(data.Close) :
            OutputOf(RunOnPrefix(k)) = SubSeq(OutputOf(results), 1, k)

\* a completed run whose last bar matters: with another Close there the
\* last row differs, while the earlier rows carry non-zero returns
C7_Witness ==
    /\ pc = "done" /\ Len(data.Close) >= 3
    /\ \E i \in 2..(Len(data.Close) - 1) : results[i].Strategy_Returns.n # 0
    /\ \E p \in Prices :
          LET n == Len(data.Close)
              other == [data.Close EXCEPT ![n] = p]
              sig == generate_signals(cfg, other).rows
          IN  OutputColumns(BacktestRows(sig, other, position_size)[n])
                  # OutputColumns(results[n])

(* C8. For every bar t after the first, Strategy_Returns[t] =
   Position_Size[t-1] * Returns[t] - (Commission_Cost[t] + Slippage_Cost[t]),
   with Position_Size = Position * position_size, Returns[t] =
   Close[t]/Close[t-1] - 1 and each cost |Position[t] - Position[t-1]| times
   its rate: the return term uses the previous bar's position. *)
C8_StrategyReturnsFormula ==
    pc = "done" =>
        \A t \in 2..Len(results) :
            LET r == results[t]
                q == results[t - 1]
                magnitude == Abs(r.Position - q.Position)
            IN  /\ r.Position_Size = FInt(r.Position * position_size)
                /\ r.Returns = Frac(r.Close - q.Close, q.Close)
                /\ r.Commission_Cost = Frac(magnitude * Commission, RateScale)
                /\ r.Slippage_Cost = Frac(magnitude * Slippage, RateScale)
                /\ r.Strategy_Returns =
                       FSub(FMul(q.Position_Size, r.Returns),
                            FAdd(r.Commission_Cost, r.Slippage_Cost))

\* a bar with a price move on which the position changed from a non-zero
\* one, at position_size 2
C8_Witness ==
    /\ pc = "done" /\ position_size = 2
    /\ \E t \in 2..Len(results) :
          /\ results[t - 1].Position # 0
          /\ results[t].Position # results[t - 1].Position
          /\ results[t].Returns.n # 0

(* C9. The Position the engine uses is 1 on every bar where the lot book is
   non-empty (Total_Quantity[t] > 0) and 0 where it is empty: never negative,
   and a hold bar with open lots stays long. *)
C9_PositionIsExposure ==
    pc = "done" =>
        \A t \in 1..Len(results) :
            results[t].Position =
                IF results[t].Total_Quantity > 0 THEN 1 ELSE 0

(* C10. While no run() has completed, calculate_metrics,
   compare_with_buy_and_hold and get_trade_log each fail with the
   precondition error and leave the engine as it was; once a run() has
   completed none of them raises it. *)
QueryOps == {"get_trade_log", "calculate_metrics", "compare_with_buy_and_hold"}

C10_PreconditionError ==
    [][(last' # last /\ last'.op \in QueryOps) =>
          /\ results' = results
          /\ pc' = pc
          /\ last'.outcome = IF pc = "done" THEN "ok" ELSE "ValueError"]_vars

\* calculate_metrics has just failed on an engine whose only run() was
\* rejected
C10_Witness ==
    /\ pc = "idle" /\ results = None
    /\ last = Call("calculate_metrics", "ValueError")

(* C11. Input validation fails fast: generate_signals is entered only with a
   frame that has every one of Open, High, Low, Close, Volume and at least
   one row; a run on any other frame ends with the validation error and
   leaves the stored signals and positions, the lot book, the output rows
   and the engine's results as they were before the call. *)
WellFormed(frame) ==
    /\ {"Open", "High", "Low", "Close", "Volume"} \subseteq frame.columns
    /\ Len(frame.Close) >= 1

C11_ValidationFailsFast ==
    [][/\ (pc # "loop" /\ pc' = "loop") => WellFormed(data')
       /\ (last' # last /\ last' = Call("run", "ValueError")) =>
              /\ pc' = pc
              /\ UNCHANGED <<signals, positions, buy_positions, rows, idx, results>>]_vars

\* a run was rejected after an earlier run had stored its signals
C11_Witness ==
    /\ last = Call("run", "ValueError")
    /\ signals # None
    /\ positions # None
    /\ Len(signals) >= 2

(* C12. For a constant-price series (every Close equal), whatever the
   strategy's configuration, calculate_metrics after the run reports a Sharpe
   Ratio of exactly 0: not NaN, not another number. *)
ConstantPrice == \A t \in 1..Len(data.Close) : data.Close[t] = data.Close[1]

MetricsReported == last = Call("calculate_metrics", "ok")

C12_ConstantPriceSharpeIsZero ==
    (MetricsReported /\ ConstantPrice) => metrics.Sharpe_Ratio = "0"

(* C13. Degenerate ratio metrics: when the result has no losing bar or
   exactly one (no or one negative Strategy_Returns), calculate_metrics
   reports Sortino Ratio 0, Profit Factor 0 when there is no losing bar, and
   Sortino Ratio, Profit Factor and Calmar Ratio as numbers, none of them NaN
   or an infinity. *)
LosingBars == {t \in 1..Len(results) : QLt(QFrac(results[t].Strategy_Returns), QInt(0))}

IsNumber(x) == ~x.nan /\ ~QIsInf(x)

C13_DegenerateRatiosAreZero ==
    (MetricsReported /\ Cardinality(LosingBars) <= 1) =>
        /\ metrics.Sortino_Ratio = "0"
        /\ LosingBars = {} => QEq(metrics.Profit_Factor, QInt(0))
        /\ IsNumber(metrics.Profit_Factor)
        /\ IsNumber(metrics.Calmar_Ratio)

(* C14. For every series whose Close never decreases, with
   first_day_buy=False and pullback_percent > 0, the strategy makes no buy
   and no sell (Signal = 0 and an empty lot book on every bar) and the
   backtest's Portfolio_Value equals initial_capital on every bar. *)
NeverDecreases == \A t \in 2..Len(data.Close) : data.Close[t] >= data.Close[t - 1]

C14_FlatEquityOnRisingSeries ==
    (pc = "done" /\ NeverDecreases /\ ~cfg.first_day_buy /\ cfg.pullback_percent > 0) =>
        \A t \in 1..Len(results) :
            /\ results[t].Signal = 0
            /\ results[t].Position_Count = 0
            /\ results[t].Total_Quantity = 0
            /\ QEq(results[t].Portfolio_Value, QInt(InitialCapital))

(* C15. Reference scenario: on Close = [100, 95, 90, 96, 99] with
   first_day_buy=True, max_positions=10, profit_target_percent=3,
   position_scaling=False and the pullback trigger disabled, the strategy
   buys on bars 1, 2 and 3 (Signal 1, 1, 1 at 100, 95, 90) and on bar 4
   (Close 96) emits Signal = -1 with Sell_Count = 1, selling only the lot
   entered at 90: the lots entered at 100 and 95 stay open. *)
EntryPrices(book) == [i \in 1..Len(book) |-> book[i].price]

C15_ReferenceScenario ==
    (pc = "loop" /\ data.Close = <<100, 95, 90, 96, 99>>) =>
        /\ idx >= 1 => rows[1].Signal = 1 /\ rows[1].Buy_Condition = "First_Day"
        /\ idx >= 2 => rows[2].Signal = 1
        /\ idx >= 3 => rows[3].Signal = 1
        /\ idx = 3 => EntryPrices(buy_positions) = <<100, 95, 90>>
        /\ idx >= 4 => rows[4].Signal = 0 - 1 /\ rows[4].Sell_Count = 1
        /\ idx = 4 => EntryPrices(buy_positions) = <<100, 95>>

\* bar 4 of the reference series has just been processed
C15_Witness ==
    /\ pc = "loop" /\ idx = 4
    /\ data.Close = <<100, 95, 90, 96, 99>>
    /\ cfg.max_positions = 10 /\ cfg.first_day_buy /\ ~cfg.position_scaling
    /\ rows[4].Sell_Count = 1

(* C16. Scaling rule: for every drop depth d >= 0, _calculate_quantity(d) is
   base_quantity * min(1 + floor(d / depth_threshold),
   max_quantity_multiplier) when position_scaling is enabled and
   base_quantity when it is disabled; hence for 0 <= d1 <= d2
   quantity(d1) <= quantity(d2), and the quantity never exceeds
   base_quantity * max_quantity_multiplier. *)
ScaledQuantity(drop) ==
    LET steps == drop.n \div (drop.d * cfg.depth_threshold)
    IN  IF 1 + steps <= cfg.max_quantity_multiplier
        THEN cfg.base_quantity * (1 + steps)
        ELSE cfg.base_quantity * cfg.max_quantity_multiplier

C16_ScalingRule ==
    /\ \A call \in quantities :
          /\ call.quantity =
                 IF cfg.position_scaling
                 THEN ScaledQuantity(call.drop_from_avg)
                 ELSE cfg.base_quantity
          /\ call.quantity <= cfg.base_quantity * cfg.max_quantity_multiplier
    /\ \A lower, higher \in quantities :
          lower.drop_from_avg.n * higher.drop_from_avg.d
              <= higher.drop_from_avg.n * lower.drop_from_avg.d
          => lower.quantity <= higher.quantity

\* two calls with scaling on: one below the first threshold, one far beyond
\* the depth at which the multiplier reaches its cap
C16_Witness ==
    /\ cfg.position_scaling
    /\ cfg.max_quantity_multiplier > 1
    /\ \E lower, higher \in quantities :
          /\ lower.drop_from_avg.n < lower.drop_from_avg.d * cfg.depth_threshold
          /\ higher.drop_from_avg.n >
                 higher.drop_from_avg.d * cfg.depth_threshold * cfg.max_quantity_multiplier
          /\ lower.quantity = cfg.base_quantity
          /\ higher.quantity = cfg.base_quantity * cfg.max_quantity_multiplier

(* C17. Drawdown correctness: on every bar t of a backtest result, Peak[t] is
   the running maximum of Portfolio_Value over bars 0..t, Drawdown[t] =
   (Portfolio_Value[t] - Peak[t]) / Peak[t] <= 0, and Drawdown[t] = 0 on
   every bar where Portfolio_Value[t] is a new running maximum. *)
RunningMaximum(t, value) ==
    /\ \E u \in 1..t : QEq(value, results[u].Portfolio_Value)
    /\ \A u \in 1..t : ~QGt(results[u].Portfolio_Value, value)

DrawdownCorrectAt(t) ==
    LET value == results[t].Portfolio_Value
        high == results[t].Peak
        drawdown == results[t].Drawdown
    IN  /\ RunningMaximum(t, high)
        /\ QEq(drawdown, QDiv(QSub(value, high), high))
        /\ QLt(drawdown, QInt(0)) \/ QEq(drawdown, QInt(0))
        /\ RunningMaximum(t, value) => QEq(drawdown, QInt(0))

C17_DrawdownCorrectness ==
    pc = "done" => \A t \in 1..Len(results) : DrawdownCorrectAt(t)

\* the strategies.daily_dca section of the loaded configuration, an empty
\* mapping when there is none
DailyDcaSection ==
    IF "daily_dca" \in DOMAIN _config.value.strategies.value
    THEN _config.value.strategies.value.daily_dca.value
    ELSE <<>>

\* the presets the loaded configuration defines, by name
DefinedPresets ==
    IF "presets" \in DOMAIN DailyDcaSection
    THEN DailyDcaSection.presets.value
    ELSE <<>>

\* every key of strategies.daily_dca except 'presets' and 'name'
BaseSettings ==
    dict([k \in DOMAIN DailyDcaSection \ {"presets", "name"} |-> DailyDcaSection[k]])

IsDefined(preset) == Len(preset) = 1 /\ preset[1] \in DOMAIN DefinedPresets

\* C18: get_daily_dca_config called with a preset name that the configuration
\* does not define warns and returns the base settings, the dictionary a call
\* without preset returns; called with a defined preset it returns that
\* preset's parameters.
C18_PresetLookup ==
    (lookup # None /\ lookup.preset # <<>>) =>
        IF IsDefined(lookup.preset)
        THEN lookup.returned = DefinedPresets[lookup.preset[1]]
        ELSE /\ lookup.warned
             /\ lookup.returned = BaseSettings
             /\ lookup.returned = get_daily_dca_config(_config, None).returned

\* the attempts of the batch that did not raise, by position
Succeeded == {i \in 1..Len(multiple.attempts) : ~multiple.attempts[i].raised}

\* the last attempt of a symbol that did not raise
LastSuccess(symbol) ==
    CHOOSE i \in Succeeded :
        /\ multiple.attempts[i].symbol = symbol
        /\ \A j \in Succeeded : multiple.attempts[j].symbol = symbol => j <= i

\* C19: fetch_multiple never aborts the batch: whatever fetch fails, every
\* symbol of the list is attempted in turn, and the dictionary returned holds
\* exactly the symbols whose fetch succeeded, each with the data its own fetch
\* returned.
C19_BatchNeverAborts ==
    multiple # None =>
        /\ multiple.pc \in {"loop", "returned"}
        /\ multiple.pc = "returned" =>
               /\ Len(multiple.attempts) = Len(multiple.symbols)
               /\ \A i \in 1..Len(multiple.symbols) :
                      multiple.attempts[i].symbol = multiple.symbols[i]
               /\ DOMAIN multiple.data_dict =
                      {multiple.attempts[i].symbol : i \in Succeeded}
               /\ \A symbol \in DOMAIN multiple.data_dict :
                      multiple.data_dict[symbol] =
                          multiple.attempts[LastSuccess(symbol)].returned

\* a batch has returned in which a fetch failed and a later fetch, of another
\* symbol, succeeded
C19_Witness ==
    /\ multiple # None
    /\ multiple.pc = "returned"
    /\ \E i, j \in 1..Len(multiple.attempts) :
          /\ i < j
          /\ multiple.attempts[i].raised
          /\ ~multiple.attempts[j].raised
          /\ multiple.attempts[i].symbol # multiple.attempts[j].symbol
          /\ DOMAIN multiple.data_dict = {multiple.attempts[j].symbol}

\* the days of the bars the store holds for a symbol
StoredDays(symbol) == {row.date[1] : row \in {r \in db.market_data : r.symbol = symbol}}

\* fetch_data has just been called directly, with use_db on and force_update off
CachedFetch == fetched = None /\ fetched' # None /\ use_db /\ ~fetched'.force_update

RangeRequested == fetched'.start_date # None /\ fetched'.end_date # None

NoRangeRequested == fetched'.start_date = None /\ fetched'.end_date = None

\* the store held bars from the requested start or before to the requested end
\* or after
RangeCovered ==
    LET stored == StoredDays(fetched'.symbol)
    IN  /\ stored # {}
        /\ \E d \in stored : d <= fetched'.start_date[1]
        /\ \E d \in stored : d >= fetched'.end_date[1]

\* the most recent stored date was within 2 days of now
StoreFresh ==
    LET stored == StoredDays(fetched'.symbol)
    IN  stored # {} /\ \E d \in stored : fetched'.now - d <= 2

\* the store was used: the call returned stored bars and did not call the provider
ServedFromStore ==
    /\ ~fetched'.provider /\ ~fetched'.raised
    /\ DOMAIN fetched'.returned \subseteq StoredDays(fetched'.symbol)

\* the provider was called and what it returned is in the store
ProviderResultSaved ==
    /\ fetched'.provider
    /\ ~fetched'.raised =>
           \A d \in DOMAIN fetched'.returned :
               \E row \in db'.market_data : /\ row.symbol = fetched'.symbol
                                /\ row.date[1] = d
                                /\ row.close = fetched'.returned[d]

\* C20: with use_db on and force_update off, fetch_data serves an explicit
\* start/end range from the store when the stored bars cover it, serves a
\* request without range from the store iff the most recent stored date is
\* within 2 days of now, and otherwise calls the provider and saves the result.
C20_CacheHitRule ==
    [][CachedFetch =>
          /\ (RangeRequested /\ RangeCovered) => ServedFromStore
          /\ (RangeRequested /\ ~RangeCovered) => ProviderResultSaved
          /\ NoRangeRequested => IF StoreFresh THEN ServedFromStore
                                 ELSE ProviderResultSaved]_vars

\* the step is a save_data or delete_data call for TQQQ with an interval other
\* than i
OtherIntervalCalled(i) == dbcall' # dbcall /\ dbcall'.interval # i

\* get_data reports the same for (TQQQ, i) after the step as before it
SameBars(i) ==
    get_data(db', "TQQQ", None, None, i) = get_data(db, "TQQQ", None, None, i)

\* get_date_range and has_data report the same for (TQQQ, i) after the step
\* as before it
SameRange(i) ==
    /\ get_date_range(db', "TQQQ", i) = get_date_range(db, "TQQQ", i)
    /\ has_data(db', "TQQQ", i) = has_data(db, "TQQQ", i)

\* C21: the store is keyed by (symbol, interval): a save_data or delete_data
\* call for the same symbol with another interval changes nothing of what
\* get_date_range, has_data and get_data report for (symbol, interval), so
\* has_data stays true while bars of the key are stored.
C21_KeyedBySymbolAndInterval ==
    [][\A i \in Intervals : OtherIntervalCalled(i) => SameBars(i) /\ SameRange(i)]_vars

\* the rows stored for the key of the call
RowsOfKey(database) ==
    {row \in database.market_data :
        row.symbol = dbcall.symbol /\ row.interval = dbcall.interval}

\* save_data was the last call, with a frame that has bars
Saved == dbcall # None /\ dbcall.op = "save_data" /\ dbcall.df # <<>>

\* at most one bar per (symbol, date, interval)
OneBarPerDate ==
    \A r1, r2 \in db.market_data :
        (r1.symbol = r2.symbol /\ r1.date = r2.date /\ r1.interval = r2.interval)
            => r1 = r2

\* C22: the store holds at most one bar per (symbol, date, interval); after
\* save_data, get_data returns the saved values on the dates of the frame and
\* the values it returned before on the other dates, and saving the same frame
\* once more leaves the stored bars as they are.
C22_InsertOrReplaceByDate ==
    /\ OneBarPerDate
    /\ Saved =>
          LET now == get_data(db, dbcall.symbol, None, None, dbcall.interval)
              was == get_data(dbcall.before, dbcall.symbol, None, None, dbcall.interval)
          IN  /\ DOMAIN now = DOMAIN was \cup DOMAIN dbcall.df
              /\ \A d \in DOMAIN now :
                    now[d] = IF d \in DOMAIN dbcall.df THEN dbcall.df[d] ELSE was[d]
              /\ save_data(db, dbcall.symbol, dbcall.df, dbcall.interval).market_data
                     = db.market_data

\* save_data has replaced a stored bar by one with another Close and has left
\* another stored bar of the key alone
C22_Witness ==
    /\ Saved
    /\ \E old \in RowsOfKey(dbcall.before) :
          /\ old.date[1] \in DOMAIN dbcall.df
          /\ old.close # dbcall.df[old.date[1]]
    /\ \E kept \in RowsOfKey(dbcall.before) : kept.date[1] \notin DOMAIN dbcall.df

\* the days of the bars stored for (TQQQ, i)
DaysStored(database, i) ==
    {row.date[1] : row \in {r \in database.market_data :
                               r.symbol = "TQQQ" /\ r.interval = i}}

\* the Close stored for (TQQQ, i) on the day d
CloseStored(i, d) ==
    (CHOOSE row \in db.market_data :
        row.symbol = "TQQQ" /\ row.interval = i /\ row.date[1] = d).close

\* C27: get_data with dates given as YYYY-MM-DD returns exactly the stored
\* bars of the key whose date d satisfies start_date <= d <= end_date, both
\* bounds inclusive, and returns None iff there is no such bar.
C27_RangeQueryInclusive ==
    db # None =>
        \A i \in Intervals, first \in {1, 2}, end \in {1, 2} :
            LET wanted == {d \in DaysStored(db, i) : first <= d /\ d <= end}
                got == get_data(db, "TQQQ", strftime_date(first), strftime_date(end), i)
            IN  IF wanted = {} THEN got = None
                ELSE /\ got # None
                     /\ DOMAIN got = wanted
                     /\ \A d \in wanted : got[d] = CloseStored(i, d)

\* what get_date_range and the record count report for (TQQQ, i) is what is
\* stored for it
RangeIsKnown(database, i) ==
    LET stored == DaysStored(database, i)
    IN  IF stored = {} THEN get_date_range(database, "TQQQ", i) = None
        ELSE /\ get_date_range(database, "TQQQ", i) # None
             /\ \A d \in stored : /\ get_date_range(database, "TQQQ", i)[1][1] <= d
                                  /\ get_date_range(database, "TQQQ", i)[2][1] >= d
             /\ get_date_range(database, "TQQQ", i)[1][1] \in stored
             /\ get_date_range(database, "TQQQ", i)[2][1] \in stored
             /\ database.metadata["TQQQ"].record_count = Cardinality(stored)

\* C28: save_data keeps the date range and the record count of its key true
\* to all the bars stored for the key: if they were before a save_data call for
\* the key, they are after it.
C28_DateRangeOfAllBars ==
    [][(/\ dbcall' # dbcall
        /\ dbcall'.op = "save_data"
        /\ dbcall'.df # <<>>
        /\ RangeIsKnown(db, dbcall'.interval)) => RangeIsKnown(db', dbcall'.interval)]_vars

\* what a run of a strategy with the fields c, alone, returns on a frame
RunAlone(c, frame, psize) ==
    BacktestRows(generate_signals(c, frame.Close).rows, frame.Close, psize)

\* C23: every run starts from a fresh lot book: whatever was run before on
\* the same strategy instance and however the runs of the two engines are
\* interleaved, each completed run returns what a run of its strategy alone on
\* its frame returns, so runs on the same series return the same.
C23_RunScopedState ==
    /\ pc = "done" => results = RunAlone(cfg, data, position_size)
    /\ \A k \in 1..Len(second.returned) :
           second.returned[k].df = RunAlone(second.cfg, second.returned[k].data, 1)
    /\ \A j, k \in 1..Len(second.returned) :
           second.returned[j].data = second.returned[k].data
               => second.returned[j].df = second.returned[k].df

\* the second engine has run twice on the same series, the first run leaving
\* lots in its book, while the first engine was inside its own run
C23_Witness ==
    /\ Len(second.returned) = 2
    /\ second.returned[1].data = second.returned[2].data
    /\ second.buy_positions # <<>>
    /\ pc = "loop" /\ idx >= 1

\* the Close of bar t is the highest of the window that ends at bar t
OwnHigh(t) == Recent_High(cfg, data.Close, t) = data.Close[t]

\* C24: with lookback_days = 0 a run completes normally, recent_high is the
\* bar's own Close on every bar, and no buy comes from the pullback trigger.
C24_ZeroLookback ==
    cfg.lookback_days = 0 =>
        /\ last.outcome \in {"ok", "running"}
        /\ \A t \in 1..Len(rows) :
               OwnHigh(t) /\ rows[t].Buy_Condition \in {"", "First_Day", "Daily_Drop"}

\* C25: on a bar after the first, a bar that lies pullback_percent or more
\* below its window's high buys whenever the book is below max_positions, on
\* an up day as on a down day, and the buy is labelled with the pullback;
\* 'Daily_Drop' labels only buys of down days without pullback.
C25_BuyTriggerPrecedence ==
    [][LaterBarProcessed =>
          LET t == idx + 1
              row == rows'[t]
          IN  /\ (PullbackCondition(t) /\ Len(buy_positions) < cfg.max_positions) =>
                     /\ row.Signal = 1
                     /\ row.Buy_Condition = "Pullback"
                     /\ Appended
              /\ row.Buy_Condition = "Daily_Drop" =>
                     /\ ~PullbackCondition(t)
                     /\ data.Close[t] < data.Close[t - 1]]_vars

\* a down day in pullback was labelled with the pullback, and the up day
\* after it bought on the pullback alone
C25_Witness ==
    /\ pc = "loop" /\ idx = 3
    /\ data.Close[2] < data.Close[1] /\ rows[2].Buy_Condition = "Pullback"
    /\ data.Close[3] > data.Close[2] /\ rows[3].Buy_Condition = "Pullback"
    /\ rows[3].Signal = 1

\* the lots of a from position i on are lots of b from position j on, in the
\* same order
RECURSIVE SurvivesFrom(_, _, _, _)
SurvivesFrom(a, b, i, j) ==
    IF i > Len(a) THEN TRUE
    ELSE IF j > Len(b) THEN FALSE
    ELSE IF a[i] = b[j] THEN SurvivesFrom(a, b, i + 1, j + 1)
    ELSE SurvivesFrom(a, b, i, j + 1)

BuyOn(r) == r.Buy_Quantity # 0
SellOn(r) == r.Sell_Count > 0

\* C29: no bar both buys and sells; a bar sells only when its close is above
\* the close before and it appended no lot; and a bar whose buy trigger
\* holds with the book at max_positions is evaluated lot by lot for a sale.
C29_BuyXorSell ==
    [][LaterBarProcessed =>
          LET t == idx + 1
              row == rows'[t]
              up == data.Close[t] > data.Close[t - 1]
              trigger == data.Close[t] < data.Close[t - 1] \/ PullbackCondition(t)
              full == Len(buy_positions) >= cfg.max_positions
          IN  /\ ~(BuyOn(row) /\ SellOn(row))
              /\ SellOn(row) => up /\ row.Signal # 1 /\ ~Appended
              /\ (trigger /\ full /\ up) =>
                     /\ KeptLots = BelowTarget(buy_positions, data.Close[t])
                     /\ row.Sell_Count = Len(buy_positions) - Len(KeptLots)]_vars

\* a pullback bar that closes up with the book full has sold the lot instead
C29_Witness ==
    /\ pc = "loop" /\ idx = 3
    /\ cfg.max_positions = 1
    /\ rows[2].Signal = 1 /\ rows[2].Position_Count = 1
    /\ PullbackCondition(3) /\ data.Close[3] > data.Close[2]
    /\ rows[3].Sell_Count = 1 /\ rows[3].Buy_Quantity = 0

\* the call before / after the step is a run() that validate_data rejected
RunWasRejected == last.op = "run" /\ last.outcome \in Rejections
RunIsRejected == last'.op = "run" /\ last'.outcome \in Rejections

\* C30: a run() that fails validation leaves the stored results as they
\* were; after it, on an engine holding the results of an earlier run,
\* calculate_metrics and compare_with_buy_and_hold succeed on those results;
\* and the results change only in the step that completes a run.
C30_FailedRunKeepsResults ==
    [][/\ RunIsRejected => results' = results
       /\ (RunWasRejected /\ results # None /\ last'.op \in QueryOps) =>
              /\ last'.outcome = "ok"
              /\ results' = results
              /\ last'.op = "calculate_metrics" => metrics' = Metrics(results)
       /\ results' # results => last' = Call("run", "ok")]_vars

\* a run() has just been rejected on an engine that holds the results of an
\* earlier run with at least one buy
C30_Witness ==
    /\ pc = "done" /\ results # None
    /\ RunWasRejected
    /\ \E t \in 1..Len(rows) : rows[t].Signal = 1

====
